---- MODULE Spec2Model ----
(***************************************************************************)
(* Model of the Dahua coordinator (custom_components/dahua/__init__.py):   *)
(* the event dispatch path (on_receive, on_receive_vto_event,              *)
(* translate_event_code, the listener registry and the event timestamp    *)
(* table) and the refresh cycle (_async_update_data) with its one-time     *)
(* capability discovery.                                                   *)
(*                                                                         *)
(* Python values are represented as follows.  A dict is a function whose   *)
(* DOMAIN is the set of keys present.  None is the string "None".  A text  *)
(* that the code inspects character by character (upper(), lower(),        *)
(* startswith(), "in") is a sequence of one-character strings.  The data   *)
(* payload of an event is tagged: [t |-> "dict", d |-> ...] for a parsed   *)
(* JSON object and [t |-> "str", s |-> ...] for a raw string.              *)
(***************************************************************************)
EXTENDS Integers, Sequences, FiniteSets, TLC

VARIABLES
    channel,        \* self._channel, the configured channel index
    events,         \* self.events, the event names selected at setup (or None)
    name,           \* self._name, the device name given at setup (or None)
    machine_name,   \* self.machine_name
    listeners,      \* self._dahua_event_listeners : event key -> callback
    timestamps,     \* self._dahua_event_timestamp : event key -> epoch seconds
    now,            \* int(time.time())
    doorStatus,     \* history: progress of the DoorStatus pulses Open, Closed, Open
    doorStamp,      \* history: progress of the observed stamps nonzero, 0, nonzero
    last,           \* outcome of the last operation
    device,         \* the device the client talks to (what its queries answer)
    setup,          \* async_setup_entry: "first_refresh", "ready" or "not_ready"
    initialized,    \* self.initialized
    model,          \* self.model
    serial_number,  \* self._serial_number
    channel_number, \* self._channel_number
    supports_coaxial_control,     \* self._supports_coaxial_control
    supports_disarming_linkage,   \* self._supports_disarming_linkage
    supports_profile_mode,        \* self._supports_profile_mode
    profile_mode,   \* self._profile_mode
    data,           \* self.data, the snapshot the host keeps (None before the first)
    last_update_success,          \* self.last_update_success
    event_thread,   \* self.dahua_event_thread: number of start() calls
    vto_thread,     \* self.dahua_vto_event_thread: number of start() calls
    event_running,  \* the standard reader is running
    vto_running,    \* the doorbell reader is running
    stopped,        \* "no", or the operation that shut the coordinator down
    pending,        \* the run of _async_update_data in flight: its locals, or empty
    cycles          \* number of refresh cycles run

\* the event path
evars == <<listeners, timestamps, now, doorStatus, doorStamp>>

\* the configuration
cvars == <<channel, events, name, device>>

\* the device state and the refresh cycle
rvars == <<machine_name, setup, initialized, model, serial_number, channel_number,
           supports_coaxial_control, supports_disarming_linkage, supports_profile_mode,
           profile_mode, data, last_update_success, event_thread, vto_thread, cycles,
           event_running, vto_running, stopped, pending>>

vars == <<cvars, evars, rvars, last>>

(***************************************************************************)
(* Bounds                                                                  *)
(***************************************************************************)
MaxTime == 2        \* the clock runs from 1 to MaxTime
MaxLines == 2       \* lines in one chunk of the standard stream
MaxCycles == 2      \* refresh cycles of one coordinator
MaxFailures == 1    \* client calls that do not answer normally in one cycle

(***************************************************************************)
(* Python helpers                                                          *)
(***************************************************************************)
None == "None"

\* None where the value is otherwise a text held as a sequence of characters
NoneText == <<"None">>

EmptyDict == <<>>

Get(d, k, default) == IF k \in DOMAIN d THEN d[k] ELSE default

Put(d, k, v) == [x \in (DOMAIN d) \cup {k} |-> IF x = k THEN v ELSE d[x]]

PyDict(d) == [t |-> "dict", d |-> d]

PyStr(s) == [t |-> "str", s |-> s]

Uppers == <<"A","B","C","D","E","F","G","H","I","J","K","L","M",
            "N","O","P","Q","R","S","T","U","V","W","X","Y","Z">>

Lowers == <<"a","b","c","d","e","f","g","h","i","j","k","l","m",
            "n","o","p","q","r","s","t","u","v","w","x","y","z">>

LowerChar(c) ==
    IF \E i \in 1..26 : Uppers[i] = c
    THEN Lowers[CHOOSE i \in 1..26 : Uppers[i] = c]
    ELSE c

UpperChar(c) ==
    IF \E i \in 1..26 : Lowers[i] = c
    THEN Uppers[CHOOSE i \in 1..26 : Lowers[i] = c]
    ELSE c

\* str.lower()
Lower(s) == [i \in 1..Len(s) |-> LowerChar(s[i])]

\* str.upper()
Upper(s) == [i \in 1..Len(s) |-> UpperChar(s[i])]

\* str.startswith(p)
StartsWith(s, p) == Len(s) >= Len(p) /\ SubSeq(s, 1, Len(p)) = p

\* p in s
Contains(s, p) ==
    \E i \in 1..(Len(s) + 1) :
        i + Len(p) - 1 <= Len(s) /\ SubSeq(s, i, i + Len(p) - 1) = p

Digits == <<"0", "1", "2", "3", "4", "5", "6", "7", "8", "9">>

\* int(s) succeeds
IsInt(s) == \E i \in 1..10 : Digits[i] = s

\* int(s)
IntOf(s) == (CHOOSE i \in 1..10 : Digits[i] = s) - 1

(***************************************************************************)
(* Event payloads                                                          *)
(***************************************************************************)
sHuman == <<"H","u","m","a","n">>

sHUMAN == <<"H","U","M","A","N">>

sVehicle == <<"V","e","h","i","c","l","e">>

human == <<"h","u","m","a","n">>

ObjectOf(type) == [Object |-> [ObjectType |-> type]]

\* json.loads on the texts of the data field that the model draws from; the
\* text "{Human}" abbreviates {"Object": {"ObjectType": "Human"}} and so on.
\* "[]" is a JSON text that is valid and is not an object.
JsonValid(s) == s \in {"{}", "{Human}", "{HUMAN}", "{Vehicle}", "[]"}

JsonLoads(s) ==
    CASE s = "{}"        -> PyDict(EmptyDict)
      [] s = "{Human}"   -> PyDict(ObjectOf(sHuman))
      [] s = "{HUMAN}"   -> PyDict(ObjectOf(sHUMAN))
      [] s = "{Vehicle}" -> PyDict(ObjectOf(sVehicle))
      [] s = "[]"        -> [t |-> "list"]

(***************************************************************************)
(* Accessors                                                               *)
(***************************************************************************)
\* "{0}-{1}".format(event_name, self._channel)
get_event_key(event_name) == <<event_name, channel>>

get_device_name == IF name # None THEN name ELSE machine_name

\* self._dahua_event_timestamp.get(event_key, 0), on a given table
get_event_timestamp_in(ts, event_name) == Get(ts, get_event_key(event_name), 0)

get_event_timestamp(event_name) == get_event_timestamp_in(timestamps, event_name)

(***************************************************************************)
(* translate_event_code                                                    *)
(***************************************************************************)
\* The listener looked up to decide the translation.
translate_listener(code) == Get(listeners, get_event_key(code), None)

\* Result: [raised |-> an AttributeError escaped, code |-> the effective code]
translate_event_code(event) ==
    LET code == Get(event, "Code", "") IN
    IF code = "CrossLineDetection" \/ code = "CrossRegionDetection"
    THEN LET payload == Get(event, "data", Get(event, "Data", PyDict(EmptyDict))) IN
         IF payload.t # "dict"
         THEN [raised |-> TRUE, code |-> None]
         ELSE LET is_human ==
                      Lower(Get(Get(payload.d, "Object", EmptyDict), "ObjectType", <<>>)) = human
              IN IF is_human /\ translate_listener(code) # None
                 THEN [raised |-> FALSE, code |-> "SmartMotionHuman"]
                 ELSE [raised |-> FALSE, code |-> code]
    ELSE [raised |-> FALSE, code |-> code]

(***************************************************************************)
(* Dispatch: the timestamp table and the listeners                         *)
(***************************************************************************)
\* One step of a handler: what happened to one line or one payload.
\*   kind      "skipped" (not an event line), "malformed" (the key=value
\*             split failed), "discarded" (index differs from the channel),
\*             "accepted"
\*   event     the parsed event (EmptyDict when no event was parsed)
\*   published number of hass.bus.fire calls made for it
\*   name      the effective event name, None when none was computed
\*   invoked   the listener calls made, each with the timestamp the
\*             listener reads through get_event_timestamp
\*   raised    an exception escaped the handler at this step
Step(kind, event, published, ename, invoked, before, after, raised) ==
    [kind |-> kind, event |-> event, published |-> published, name |-> ename,
     invoked |-> invoked, tsBefore |-> before, tsAfter |-> after, raised |-> raised]

\* slip: the listener is called before the table is written
set_and_notify_early(ts, event_name, listener, value) ==
    [ts |-> Put(ts, get_event_key(event_name), value),
     invoked |-> <<[listener |-> listener, name |-> event_name,
                    seen |-> get_event_timestamp_in(ts, event_name)]>>,
     raised |-> FALSE]

\* self._dahua_event_timestamp[event_key] = value; listener()
set_and_notify(ts, event_name, listener, value) ==
    LET ts2 == Put(ts, get_event_key(event_name), value) IN
    [ts |-> ts2,
     invoked |-> <<[listener |-> listener, name |-> event_name,
                    seen |-> get_event_timestamp_in(ts2, event_name)]>>,
     raised |-> FALSE]

no_effect(ts) == [ts |-> ts, invoked |-> <<>>, raised |-> FALSE]

key_error(ts) == [ts |-> ts, invoked |-> <<>>, raised |-> TRUE]

\* slip: the table is written whether or not a listener is registered
on_receive_dispatch_unguarded(event, event_name, ts) ==
    LET listener == Get(listeners, get_event_key(event_name), None)
        key == get_event_key(event_name)
    IN IF "action" \notin DOMAIN event
       THEN key_error(ts)
       ELSE IF event["action"] \in {"Start", "Stop"}
            THEN [ts |-> Put(ts, key, IF event["action"] = "Start" THEN now ELSE 0),
                  invoked |-> IF listener # None
                              THEN <<[listener |-> listener, name |-> event_name,
                                      seen |-> IF event["action"] = "Start" THEN now ELSE 0]>>
                              ELSE <<>>,
                  raised |-> FALSE]
            ELSE no_effect(ts)

\* on_receive, from the listener lookup on; event["action"] raises KeyError
\* when the line has no action field
on_receive_dispatch(event, event_name, ts) ==
    LET listener == Get(listeners, get_event_key(event_name), None) IN
    IF listener # None
    THEN IF "action" \notin DOMAIN event
         THEN key_error(ts)
         ELSE IF event["action"] = "Start"
              THEN set_and_notify(ts, event_name, listener, now)
              ELSE IF event["action"] = "Stop"
                   THEN set_and_notify(ts, event_name, listener, 0)
                   ELSE no_effect(ts)
    ELSE no_effect(ts)

\* slip: a Pulse of a code other than DoorStatus never activates the key
vto_pulse_value_inactive(event, code) ==
    IF code = "DoorStatus"
    THEN IF Get(Get(event, "Data", PyDict(EmptyDict)).d, "Status", "") = "Open" THEN now ELSE 0
    ELSE 0

\* slip: DoorStatus is read from the numeric State like every other code
vto_pulse_value_state(event, code) ==
    IF Get(Get(event, "Data", PyDict(EmptyDict)).d, "State", 0) = 1 THEN now ELSE 0

\* the Pulse branch of on_receive_vto_event
vto_pulse_value(event, code) ==
    LET payload == Get(event, "Data", PyDict(EmptyDict)).d IN
    IF code = "DoorStatus"
    THEN IF Get(payload, "Status", "") = "Open" THEN now ELSE 0
    ELSE IF Get(payload, "State", 0) = 1 THEN now ELSE 0

\* slip: the last branch is an else, taken by every action that is neither
\* Start nor Stop
on_receive_vto_dispatch_else(event, code, ts) ==
    LET listener == Get(listeners, get_event_key(code), None) IN
    IF listener # None
    THEN LET action == Get(event, "Action", "") IN
         IF action = "Start"
         THEN set_and_notify(ts, code, listener, now)
         ELSE IF action = "Stop"
              THEN set_and_notify(ts, code, listener, 0)
              ELSE set_and_notify(ts, code, listener, vto_pulse_value(event, code))
    ELSE no_effect(ts)

\* on_receive_vto_event, from the listener lookup on
on_receive_vto_dispatch(event, code, ts) ==
    LET listener == Get(listeners, get_event_key(code), None) IN
    IF listener # None
    THEN LET action == Get(event, "Action", "") IN
         IF action = "Start"
         THEN set_and_notify(ts, code, listener, now)
         ELSE IF action = "Stop"
              THEN set_and_notify(ts, code, listener, 0)
              ELSE IF action = "Pulse"
                   THEN set_and_notify(ts, code, listener, vto_pulse_value(event, code))
                   ELSE no_effect(ts)
    ELSE no_effect(ts)

(***************************************************************************)
(* on_receive: the standard stream                                         *)
(***************************************************************************)
\* A chunk is a sequence of lines (data.split("\r\n")); a line is the
\* sequence of its ';'-separated fields; a field is the sequence of its
\* '='-separated parts.

\* line.startswith("Code=")
starts_with_code(line) ==
    Len(line) > 0 /\ Len(line[1]) >= 2 /\ line[1][1] = "Code"

\* for key_value in line.split(';'): key, value = key_value.split('=')
RECURSIVE parse_pairs(_, _, _)
parse_pairs(line, i, event) ==
    IF i > Len(line)
    THEN [raised |-> FALSE, event |-> event]
    ELSE IF Len(line[i]) # 2
         THEN [raised |-> TRUE, event |-> event]
         ELSE parse_pairs(line, i + 1, Put(event, line[i][1], line[i][2]))

\* the json.loads of the data field; a failure keeps the raw string
parse_data(event) ==
    IF "data" \in DOMAIN event
    THEN IF JsonValid(event["data"])
         THEN Put(event, "data", JsonLoads(event["data"]))
         ELSE Put(event, "data", PyStr(event["data"]))
    ELSE event

\* the index of the event; int() raising ValueError gives 0
parse_index(event) ==
    IF "index" \in DOMAIN event
    THEN IF IsInt(event["index"]) THEN IntOf(event["index"]) ELSE 0
    ELSE 0

\* slip: no event is discarded
index_accepted_any(index) == TRUE

\* if index != self._channel: continue
index_accepted(index) == index = channel

\* The body of the loop over the lines for one line, on the table ts.
on_receive_line(line, ts) ==
    IF ~starts_with_code(line)
    THEN Step("skipped", EmptyDict, 0, None, <<>>, ts, ts, FALSE)
    ELSE LET parsed == parse_pairs(line, 1, [x \in {"name"} |-> get_device_name]) IN
         IF parsed.raised
         THEN Step("malformed", EmptyDict, 0, None, <<>>, ts, ts, TRUE)
         ELSE LET event == parse_data(parsed.event)
                  index == parse_index(event)
              IN IF ~index_accepted(index)
                 THEN Step("discarded", event, 0, None, <<>>, ts, ts, FALSE)
                 ELSE LET fired == Put(event, "DeviceName", get_device_name)
                          tr == translate_event_code(fired)
                      IN IF tr.raised
                         THEN Step("accepted", fired, 1, None, <<>>, ts, ts, TRUE)
                         ELSE LET d == on_receive_dispatch(fired, tr.code, ts) IN
                              Step("accepted", fired, 1, tr.code, d.invoked, ts, d.ts,
                                   d.raised)

\* for line in data.split("\r\n"): the steps taken, in order; an exception
\* ends the loop
RECURSIVE on_receive_loop(_, _, _, _)
on_receive_loop(chunk, i, ts, steps) ==
    IF i > Len(chunk)
    THEN steps
    ELSE LET st == on_receive_line(chunk[i], ts) IN
         IF st.raised
         THEN Append(steps, st)
         ELSE on_receive_loop(chunk, i + 1, st.tsAfter, Append(steps, st))

\* the events published on the bus by a sequence of steps
RECURSIVE Bus(_)
Bus(steps) ==
    IF steps = <<>> THEN <<>>
    ELSE IF steps[1].published = 1
         THEN <<steps[1].event>> \o Bus(Tail(steps))
         ELSE Bus(Tail(steps))

FinalTs(steps, ts) == IF steps = <<>> THEN ts ELSE steps[Len(steps)].tsAfter

Outcome(op, input, steps) ==
    [op |-> op, input |-> input, steps |-> steps, bus |-> Bus(steps),
     raised |-> \E i \in 1..Len(steps) : steps[i].raised]

(***************************************************************************)
(* on_receive_vto_event: the doorbell stream                               *)
(***************************************************************************)
\* slip: a payload whose Index is not the channel is discarded, as on the
\* standard stream
on_receive_vto_step_filtered(event, ts) ==
    LET fired == Put(event, "DeviceName", get_device_name)
        tr == translate_event_code(fired)
    IN IF Get(event, "Index", 0) # channel
       THEN Step("discarded", event, 0, None, <<>>, ts, ts, FALSE)
       ELSE IF tr.raised
            THEN Step("accepted", fired, 1, None, <<>>, ts, ts, TRUE)
            ELSE LET d == on_receive_vto_dispatch(fired, tr.code, ts) IN
                 Step("accepted", fired, 1, tr.code, d.invoked, ts, d.ts, d.raised)

\* The whole handler for one structured payload, on the table ts.
on_receive_vto_step(event, ts) ==
    LET fired == Put(event, "DeviceName", get_device_name)
        tr == translate_event_code(fired)
    IN IF tr.raised
       THEN Step("accepted", fired, 1, None, <<>>, ts, ts, TRUE)
       ELSE LET d == on_receive_vto_dispatch(fired, tr.code, ts) IN
            Step("accepted", fired, 1, tr.code, d.invoked, ts, d.ts, d.raised)

(***************************************************************************)
(* add_dahua_event_listener                                                *)
(***************************************************************************)
\* slip: a callback already registered for the key is kept
register_keep(reg, event_name, listener) ==
    IF get_event_key(event_name) \in DOMAIN reg THEN reg
    ELSE Put(reg, get_event_key(event_name), listener)

\* self._dahua_event_listeners[event_key] = listener
register(reg, event_name, listener) == Put(reg, get_event_key(event_name), listener)

(***************************************************************************)
(* Inputs                                                                  *)
(***************************************************************************)
Channels == {0, 1}

ListenerIds == {"L1", "L2"}

\* the callback registered after the callback old (None: the first one)
NextListener(old) == IF old = None THEN "L1" ELSE "L2"

\* the event lists a coordinator is set up with; the host's sensors register
\* callbacks for the names in the list
EventLists ==
    {{"VideoMotion", "CrossLineDetection"},
     {"CrossLineDetection", "SmartMotionHuman"},
     {"VideoMotion", "DoorStatus"}}

\* self.events: None or a list of names
NoEventList == [isNone |-> TRUE, names |-> {}]

EventList(l) == [isNone |-> FALSE, names |-> l]

Opt(k, v) == IF v = None THEN <<>> ELSE << <<k, v>> >>

\* Code=<code>;action=<action>;index=<index>;data=<data>, a None field left out
Line(code, action, index, payload) ==
    << <<"Code", code>> >> \o Opt("action", action) \o Opt("index", index)
        \o Opt("data", payload)

\* a line that is no event, and an event line with a field that has no '='
HeartbeatLine == << <<"Heartbeat">> >>

MalformedLine == << <<"Code", "VideoMotion">>, <<"action">> >>

StdLines ==
    {Line("VideoMotion", "Start", i, "{}") : i \in {None, "0", "1", "x"}}
    \cup {Line("VideoMotion", a, "0", None) : a \in {"Stop", "Pulse"}}
    \cup {Line("CrossLineDetection", "Start", "0", d) : d \in {"{Human}", "not json"}}
    \cup {HeartbeatLine, MalformedLine}

RECURSIVE SeqsUpTo(_, _)
SeqsUpTo(S, n) ==
    IF n = 0 THEN {<<>>}
    ELSE LET shorter == SeqsUpTo(S, n - 1) IN
         shorter \cup {Append(q, x) : q \in {r \in shorter : Len(r) = n - 1}, x \in S}

Chunks == SeqsUpTo(StdLines, MaxLines) \ {<<>>}

\* a payload {"Code": code, ...} with the further fields given
VtoEvent(code, fields) ==
    [x \in {"Code"} \cup DOMAIN fields |-> IF x = "Code" THEN code ELSE fields[x]]

VtoEvents ==
    {VtoEvent("VideoMotion", [Action |-> a]) : a \in {"Start", "Stop"}}
    \cup {VtoEvent("VideoMotion", EmptyDict)}
    \cup {VtoEvent("VideoMotion", [Action |-> "Start", Data |-> PyDict(EmptyDict), Index |-> 5])}
    \cup {VtoEvent("VideoMotion", [Action |-> "Pulse", Data |-> PyDict([State |-> s]),
                                   Index |-> -1]) : s \in {0, 1}}
    \cup {VtoEvent("VideoMotion", [Action |-> "Pulse", Index |-> -1])}
    \cup {VtoEvent("DoorStatus", [Action |-> "Pulse", Data |-> PyDict([Status |-> s]),
                                  Index |-> 0]) : s \in {"Open", "Closed"}}
    \cup {VtoEvent("DoorStatus", [Action |-> "Pulse", Data |-> PyDict(EmptyDict), Index |-> 0])}
    \cup {VtoEvent("DoorStatus", [Action |-> "Stop", Index |-> 0])}
    \cup {VtoEvent("CrossLineDetection", [Action |-> "Start", Data |-> PyDict(ObjectOf(t))]) :
              t \in {sHUMAN, sVehicle}}

(***************************************************************************)
(* History of the DoorStatus pulses                                        *)
(***************************************************************************)
\* progress of the pattern TRUE, FALSE, TRUE after one more symbol
Progress(p, sym) ==
    IF sym
    THEN IF p = 2 THEN 3 ELSE 1
    ELSE IF p = 1 \/ p = 3 THEN 2 ELSE 0

IsDoorPulse(st) ==
    st.name = "DoorStatus" /\ Get(st.event, "Action", "") = "Pulse" /\ st.invoked # <<>>

IsDoorOther(st) ==
    st.name = "DoorStatus" /\ Get(st.event, "Action", "") # "Pulse" /\ st.invoked # <<>>

DoorOpen(st) == Get(Get(st.event, "Data", PyDict(EmptyDict)).d, "Status", "") = "Open"

(***************************************************************************)
(* The device and the client                                               *)
(***************************************************************************)
tIPCamera == <<"I","P"," ","C","a","m","e","r","a">>

tCameraPV == <<"I","P","C","-","H","D","W","3","8","4","9","H","P","-","A","S","-","P","V">>

tCamera == <<"I","P","C","-","H","F","W","2","4","3","1","S">>

tVTO == <<"V","T","O","2","2","1","1","G">>

tVtoLower == <<"v","t","o","2","0","0","0","a">>

tDHI == <<"D","H","I","-","V","T","O","2","2","0","2","F">>

tAD == <<"A","D","4","1","0">>

tASPV == <<"-","A","S","-","P","V">>

tVTOPrefix == <<"V","T","O">>

tDHIPrefix == <<"D","H","I">>

tADPrefix == <<"A","D">>

\* What a device answers: the deviceType and updateSerial fields of its system
\* info, the type of the device-type query (NoneText: the field is absent), and
\* the number of lines of its Lighting[0][2] config.
Device(deviceType, updateSerial, type, conf) ==
    [deviceType |-> deviceType, updateSerial |-> updateSerial, type |-> type,
     conf |-> conf]

Devices ==
    << Device(tCameraPV, NoneText, NoneText, 3),
       Device(tIPCamera, tCamera, NoneText, 1),
       Device(NoneText, NoneText, tCamera, 3),
       Device(tVTO, NoneText, NoneText, 3),
       Device(tIPCamera, tVtoLower, NoneText, 1),
       Device(NoneText, NoneText, tDHI, 1),
       Device(tAD, NoneText, NoneText, 1),
       Device(NoneText, NoneText, NoneText, 1),
       Device(tIPCamera, NoneText, tCamera, 1),
       Device(tCameraPV, tCamera, tDHI, 1),
       Device(NoneText, tCamera, tDHI, 1) >>

TextField(k, v) == IF v = NoneText THEN <<>> ELSE [x \in {k} |-> v]

\* dict.update
Update(d, r) == [x \in (DOMAIN d) \cup (DOMAIN r) |-> IF x \in DOMAIN r THEN r[x] ELSE d[x]]

\* the answers of the client's queries
system_info_of(dev) ==
    Update(Update([x \in {"serialNumber"} |-> "SN1"], TextField("deviceType", dev.deviceType)),
           TextField("updateSerial", dev.updateSerial))

machine_name_answer == [x \in {"table.General.MachineName"} |-> "Cam13"]

software_version_answer == [x \in {"version"} |-> "2.800"]

device_type_of(dev) == TextField("type", dev.type)

\* mode "absent": the answer has no mode field
video_in_mode_answer(mode) ==
    IF mode = "absent" THEN <<>> ELSE [x \in {"table.VideoInMode[0].Config[0]"} |-> mode]

\* async_get_config_lighting(channel, profile_mode): the keys name both
\* "table.Lighting[{0}][{1}].Mode" for the channels and modes of the model
LightingKey(ch, mode) ==
    CASE ch = 0 /\ mode = "0" -> "table.Lighting[0][0].Mode"
      [] ch = 0 /\ mode = "1" -> "table.Lighting[0][1].Mode"
      [] ch = 1 /\ mode = "0" -> "table.Lighting[1][0].Mode"
      [] ch = 1 /\ mode = "1" -> "table.Lighting[1][1].Mode"

lighting_answer(ch, mode) == [x \in {LightingKey(ch, mode)} |-> "Auto"]

motion_detection_answer == [x \in {"table.MotionDetect[0].Enable"} |-> "true"]

disarming_linkage_answer == [x \in {"table.DisableLinkage.Enable"} |-> "false"]

coaxial_answer == [x \in {"status.status.Speaker"} |-> "Off"]

lighting_v2_answer == [x \in {"table.Lighting_V2"} |-> "Manual"]

\* The places of _async_update_data that call the client.
CallSites ==
    {"snapshot", "system_info", "machine_name", "software_version", "device_type",
     "coaxial_probe", "disarming_probe", "profile_probe", "video_in_mode",
     "lighting", "motion_detection", "disarming_linkage", "coaxial", "lighting_v2"}

\* How a call ends: "ok", "none" (it returns None), "response"
\* (ClientResponseError), "transport" (another ClientError), "other" (an
\* exception that is no ClientError, such as asyncio.TimeoutError).  The
\* model draws "other" at the sites that have a handler of their own, and
\* "none" at the sites whose result is tested against None.
FanOutSites == {"lighting", "motion_detection", "disarming_linkage", "coaxial", "lighting_v2"}

HandledSites == {"snapshot", "coaxial_probe", "disarming_probe", "profile_probe",
                 "video_in_mode"}

Endings(site) ==
    {"response", "transport"}
        \cup (IF site \in FanOutSites THEN {"none"} ELSE {})
        \cup (IF site \in HandledSites THEN {"other"} ELSE {})

IsClientResponseError(e) == e = "response"

IsClientError(e) == e \in {"response", "transport"}

Raises(e) == e \in {"response", "transport", "other"}

Modes == {"1", "", "absent"}

(***************************************************************************)
(* Capability predicates                                                   *)
(***************************************************************************)
\* model.upper() starts with VTO, DHI or AD
\* slip: the model is compared as it is spelled, without upper()
is_doorbell_of_as_spelled(m) ==
    StartsWith(m, tVTOPrefix) \/ StartsWith(m, tDHIPrefix) \/ StartsWith(m, tADPrefix)

is_doorbell_of(m) ==
    LET u == Upper(m) IN
    StartsWith(u, tVTOPrefix) \/ StartsWith(u, tDHIPrefix) \/ StartsWith(u, tADPrefix)

is_doorbell == is_doorbell_of(model)

supports_security_light_of(m) == Contains(m, tASPV)

supports_security_light == supports_security_light_of(model)

(***************************************************************************)
(* _async_update_data                                                      *)
(***************************************************************************)
NoData == [present |-> FALSE, d |-> <<>>]

SomeData(d) == [present |-> TRUE, d |-> d]

\* The coordinator's fields as a cycle runs, with its local data, the calls
\* issued so far and whether an exception reached the outer handler.
Fields ==
    [initialized |-> initialized, model |-> model, machine_name |-> machine_name,
     serial_number |-> serial_number, channel_number |-> channel_number,
     supports_coaxial_control |-> supports_coaxial_control,
     supports_disarming_linkage |-> supports_disarming_linkage,
     supports_profile_mode |-> supports_profile_mode, profile_mode |-> profile_mode,
     event_thread |-> event_thread, vto_thread |-> vto_thread,
     event_running |-> event_running, vto_running |-> vto_running,
     data |-> <<>>, calls |-> <<>>, failed |-> FALSE]

\* a call of the client is issued at a site and ends with the ending e
Called(s, site, call, e) ==
    [s EXCEPT !.calls = Append(@, [site |-> site, call |-> call, ending |-> e])]

Failed(s) == [s EXCEPT !.failed = TRUE]

\* the snapshot probe at index 0: ClientError is caught
probe_snapshot(s, e) ==
    LET c == Called(s, "snapshot", <<"async_get_snapshot", 0>>, e) IN
    IF ~Raises(e)
    THEN [c EXCEPT !.channel_number = channel]
    ELSE IF IsClientError(e) THEN c ELSE Failed(c)

\* the gather of system info, machine name and software version
gather_info(s, e1, e2, e3) ==
    LET c == Called(Called(Called(s, "system_info", <<"async_get_system_info">>, e1),
                           "machine_name", <<"async_get_machine_name">>, e2),
                    "software_version", <<"get_software_version">>, e3)
    IN IF Raises(e1) \/ Raises(e2) \/ Raises(e3)
       THEN Failed(c)
       ELSE [c EXCEPT !.data = Update(Update(Update(@, system_info_of(device)),
                                             machine_name_answer),
                                      software_version_answer)]

\* the device-type query is needed: deviceType is "IP Camera" or absent, and
\* updateSerial is absent
asks_device_type(d) ==
    LET first == Get(d, "deviceType", NoneText) IN
    (first = tIPCamera \/ first = NoneText) /\ Get(d, "updateSerial", NoneText) = NoneText

\* slip: a deviceType of "IP Camera" is taken as the model
determine_model_plain(s, e) ==
    LET first == Get(s.data, "deviceType", NoneText)
        second == IF first = NoneText THEN Get(s.data, "updateSerial", NoneText) ELSE first
        asks == asks_device_type(s.data)
        c == IF asks THEN Called(s, "device_type", <<"get_device_type">>, e) ELSE s
    IN IF asks /\ Raises(e)
       THEN Failed(c)
       ELSE LET device_type == IF asks /\ first = NoneText
                               THEN Get(device_type_of(device), "type", NoneText)
                               ELSE second
            IN [c EXCEPT !.data = Put(@, "model", device_type),
                         !.model = device_type,
                         !.machine_name = Get(c.data, "table.General.MachineName", None),
                         !.serial_number = Get(c.data, "serialNumber", None)]

\* the model: deviceType, else updateSerial, else the device-type query
determine_model(s, e) ==
    LET first == Get(s.data, "deviceType", NoneText)
        second == IF first = tIPCamera \/ first = NoneText
                  THEN Get(s.data, "updateSerial", NoneText)
                  ELSE first
        asks == asks_device_type(s.data)
        c == IF asks THEN Called(s, "device_type", <<"get_device_type">>, e) ELSE s
    IN IF asks /\ Raises(e)
       THEN Failed(c)
       ELSE LET device_type == IF asks THEN Get(device_type_of(device), "type", NoneText)
                               ELSE second
            IN [c EXCEPT !.data = Put(@, "model", device_type),
                         !.model = device_type,
                         !.machine_name = Get(c.data, "table.General.MachineName", None),
                         !.serial_number = Get(c.data, "serialNumber", None)]

\* the coaxial-control probe: only ClientResponseError is caught
probe_coaxial(s, e) ==
    LET c == Called(s, "coaxial_probe", <<"async_get_coaxial_control_io_status">>, e) IN
    IF ~Raises(e)
    THEN [c EXCEPT !.supports_coaxial_control = TRUE]
    ELSE IF IsClientResponseError(e)
         THEN [c EXCEPT !.supports_coaxial_control = FALSE]
         ELSE Failed(c)

\* the disarming-linkage probe: ClientError is caught
probe_disarming(s, e) ==
    LET c == Called(s, "disarming_probe", <<"async_get_disarming_linkage">>, e) IN
    IF ~Raises(e)
    THEN [c EXCEPT !.supports_disarming_linkage = TRUE]
    ELSE IF IsClientError(e)
         THEN [c EXCEPT !.supports_disarming_linkage = FALSE]
         ELSE Failed(c)

\* The event stream readers are outside the coordinator; of a reader the
\* coordinator uses start(), after which it runs, and stop(), after which
\* it does not.
reader_start(running) == TRUE

reader_stop(running) == FALSE

\* async_start_event_listener
async_start_event_listener(s) ==
    IF ~events.isNone
    THEN [s EXCEPT !.event_thread = @ + 1, !.event_running = reader_start(@)]
    ELSE s

\* async_start_vto_event_listener
async_start_vto_event_listener(s) ==
    [s EXCEPT !.vto_thread = @ + 1, !.vto_running = reader_start(@)]

\* the profile-mode probe, Lighting[0][2]: ClientError is caught
probe_profile_mode(s, e) ==
    LET c == Called(s, "profile_probe", <<"async_get_config", "Lighting[0][2]">>, e) IN
    IF ~Raises(e)
    THEN [c EXCEPT !.supports_profile_mode = device.conf > 1]
    ELSE IF IsClientError(e)
         THEN [c EXCEPT !.supports_profile_mode = FALSE]
         ELSE Failed(c)

\* is_doorbell() and the start of one of the two readers; upper() of a model
\* that is None raises
start_listeners(s, e) ==
    IF s.model = NoneText
    THEN Failed(s)
    ELSE IF ~is_doorbell_of(s.model)
         THEN probe_profile_mode(async_start_event_listener(s), e)
         ELSE async_start_vto_event_listener(s)

\* slip: the flag is left as it was
set_initialized_skipped(s) == s

\* self.initialized = True
set_initialized(s) == [s EXCEPT !.initialized = TRUE]

\* slip: the profile mode is fetched from every device
fetches_profile_mode_unguarded(s) == TRUE

\* the profile mode is fetched: it is supported and the device is no doorbell
fetches_profile_mode(s) == s.supports_profile_mode /\ ~is_doorbell_of(s.model)

\* slip: only ClientError is caught, as at the probes
fetch_profile_mode_client_error(s, e, mode) ==
    IF fetches_profile_mode(s)
    THEN LET c == Called(s, "video_in_mode", <<"async_get_video_in_mode">>, e) IN
         IF Raises(e)
         THEN IF IsClientError(e) THEN c ELSE Failed(c)
         ELSE LET mode_data == video_in_mode_answer(mode)
                  got == Get(mode_data, "table.VideoInMode[0].Config[0]", "0")
              IN [c EXCEPT !.data = Update(@, mode_data),
                           !.profile_mode = IF got = "" THEN "0" ELSE got]
    ELSE s

\* the fetch of the profile mode: any exception is caught and the mode kept;
\* mode is the mode field of the answer
fetch_profile_mode(s, e, mode) ==
    IF fetches_profile_mode(s)
    THEN LET c == Called(s, "video_in_mode", <<"async_get_video_in_mode">>, e) IN
         IF Raises(e)
         THEN c
         ELSE LET mode_data == video_in_mode_answer(mode)
                  got == Get(mode_data, "table.VideoInMode[0].Config[0]", "0")
              IN [c EXCEPT !.data = Update(@, mode_data),
                           !.profile_mode = IF got = "" THEN "0" ELSE got]
    ELSE s

\* slip: the coaxial query is fanned out whether or not it is supported
fan_out_sites_coaxial(s) ==
    <<"lighting", "motion_detection">>
        \o (IF s.supports_disarming_linkage THEN <<"disarming_linkage">> ELSE <<>>)
        \o <<"coaxial">>

\* the queries fanned out, in the order they are issued
fan_out_sites(s) ==
    <<"lighting", "motion_detection">>
        \o (IF s.supports_disarming_linkage THEN <<"disarming_linkage">> ELSE <<>>)
        \o (IF s.supports_coaxial_control THEN <<"coaxial">> ELSE <<>>)

\* slip: the lighting query is issued for profile mode "0"
fan_out_call_day(s, site) ==
    CASE site = "lighting" -> <<"async_get_config_lighting", channel, "0">>
      [] site = "motion_detection" -> <<"async_get_config_motion_detection">>
      [] site = "disarming_linkage" -> <<"async_get_disarming_linkage">>
      [] site = "coaxial" -> <<"async_get_coaxial_control_io_status">>

fan_out_call(s, site) ==
    CASE site = "lighting" -> <<"async_get_config_lighting", channel, s.profile_mode>>
      [] site = "motion_detection" -> <<"async_get_config_motion_detection">>
      [] site = "disarming_linkage" -> <<"async_get_disarming_linkage">>
      [] site = "coaxial" -> <<"async_get_coaxial_control_io_status">>

fan_out_answer(s, site) ==
    CASE site = "lighting" -> lighting_answer(channel, s.profile_mode)
      [] site = "motion_detection" -> motion_detection_answer
      [] site = "disarming_linkage" -> disarming_linkage_answer
      [] site = "coaxial" -> coaxial_answer

\* for result in results: if result is not None: data.update(result)
RECURSIVE merge_results(_, _, _, _, _)
merge_results(s, o, sites, i, d) ==
    IF i > Len(sites) THEN d
    ELSE merge_results(s, o, sites, i + 1,
                       IF o[sites[i]] = "none" THEN d
                       ELSE Update(d, fan_out_answer(s, sites[i])))

\* coros = [...]; results = await asyncio.gather(*coros); merge.  o gives the
\* ending of each query issued.
fan_out(s, o) ==
    LET sites == fan_out_sites(s)
        c == [s EXCEPT !.calls = @ \o [i \in 1..Len(sites) |->
                                           [site |-> sites[i],
                                            call |-> fan_out_call(s, sites[i]),
                                            ending |-> o[sites[i]]]]]
    IN IF \E i \in 1..Len(sites) : Raises(o[sites[i]])
       THEN Failed(c)
       ELSE [c EXCEPT !.data = merge_results(c, o, sites, 1, @)]

\* if self.supports_security_light(): the lighting-v2 status
fetch_lighting_v2(s, e) ==
    IF supports_security_light_of(s.model)
    THEN LET c == Called(s, "lighting_v2", <<"async_get_lighting_v2">>, e) IN
         IF Raises(e)
         THEN Failed(c)
         ELSE IF e = "none" THEN c
              ELSE [c EXCEPT !.data = Update(@, lighting_v2_answer)]
    ELSE s

(***************************************************************************)
(* The runs of _async_update_data                                          *)
(***************************************************************************)
\* The calls of a run that did not end "ok"
Failures(s) == Cardinality({i \in 1..Len(s.calls) : s.calls[i].ending # "ok"})

\* the endings the call at a site may have in the run s
Allowed(s, site) ==
    {"ok"} \cup (IF Failures(s) < MaxFailures THEN Endings(site) ELSE {})

\* the endings of the three gathered calls
GatherEndings(s) ==
    {t \in Allowed(s, "system_info") \X Allowed(s, "machine_name")
               \X Allowed(s, "software_version") :
        Cardinality({i \in 1..3 : t[i] # "ok"}) + Failures(s) <= MaxFailures}

\* the endings of the queries fanned out
FanOutEndings(s) ==
    LET issued == {fan_out_sites(s)[i] : i \in 1..Len(fan_out_sites(s))} IN
    {o \in [issued -> {"ok", "none", "response", "transport"}] :
        Cardinality({c \in issued : o[c] # "ok"}) + Failures(s) <= MaxFailures}

\* if not self.initialized: ... self.initialized = True, for every ending
\* of the calls it makes
discovery(s) ==
    LET S1 == {probe_snapshot(s, e) : e \in Allowed(s, "snapshot")}
        S2 == UNION {IF x.failed THEN {x}
                     ELSE {gather_info(x, t[1], t[2], t[3]) : t \in GatherEndings(x)} :
                     x \in S1}
        S3 == UNION {IF x.failed THEN {x}
                     ELSE IF asks_device_type(x.data)
                          THEN {determine_model(x, e) : e \in Allowed(x, "device_type")}
                          ELSE {determine_model(x, "ok")} : x \in S2}
        S4 == UNION {IF x.failed THEN {x}
                     ELSE {probe_coaxial(x, e) : e \in Allowed(x, "coaxial_probe")} :
                     x \in S3}
        S5 == UNION {IF x.failed THEN {x}
                     ELSE {probe_disarming(x, e) : e \in Allowed(x, "disarming_probe")} :
                     x \in S4}
        S6 == UNION {IF x.failed THEN {x}
                     ELSE {start_listeners(x, e) : e \in Allowed(x, "profile_probe")} :
                     x \in S5}
    IN {IF x.failed THEN x ELSE set_initialized(x) : x \in S6}

\* The runs of _async_update_data, in the three stages between which the
\* coroutine is suspended on the device.
\* if not self.initialized: the discovery block
discovery_stage(s) == IF ~s.initialized THEN discovery(s) ELSE {s}

\* "We need the profile mode": the fetch of the video-in mode
profile_mode_stage(x) ==
    IF x.failed THEN {x}
    ELSE IF fetches_profile_mode(x)
         THEN {fetch_profile_mode(x, e, mode) :
                   e \in Allowed(x, "video_in_mode"), mode \in Modes}
         ELSE {x}

\* the fan-out, the gather and the lighting-v2 status, up to the return
gather_stage(x) ==
    LET S3 == IF x.failed THEN {x} ELSE {fan_out(x, o) : o \in FanOutEndings(x)}
    IN UNION {IF y.failed THEN {y}
              ELSE IF supports_security_light_of(y.model)
                   THEN {fetch_lighting_v2(y, e) : e \in Allowed(y, "lighting_v2")}
                   ELSE {y} : y \in S3}

\* The runs of _async_update_data from the fields s: the fields each leaves,
\* the data it returns and whether it raised UpdateFailed.
async_update_data(s) ==
    UNION {gather_stage(y) : y \in UNION {profile_mode_stage(x) : x \in discovery_stage(s)}}

(***************************************************************************)
(* Actions of the event path                                               *)
(***************************************************************************)
Idle == Outcome("idle", None, <<>>)

\* the state after DahuaDataUpdateCoordinator.__init__
InitCoordinator ==
    /\ name = "Cam13"
    /\ machine_name = ""
    /\ listeners = EmptyDict
    /\ timestamps = EmptyDict
    /\ now = 1
    /\ doorStatus = 0
    /\ doorStamp = 0
    /\ last = Idle
    /\ setup = "first_refresh"
    /\ initialized = FALSE
    /\ model = <<>>
    /\ serial_number = None
    /\ channel_number = channel + 1
    /\ supports_coaxial_control = FALSE
    /\ supports_disarming_linkage = FALSE
    /\ supports_profile_mode = FALSE
    /\ profile_mode = "0"
    /\ data = NoData
    /\ last_update_success = TRUE
    /\ event_thread = 0
    /\ vto_thread = 0
    /\ event_running = FALSE
    /\ vto_running = FALSE
    /\ stopped = "no"
    /\ pending = {}
    /\ cycles = 0

\* The event path of one coordinator, for each channel and event list.
InitEvents ==
    /\ channel \in Channels
    /\ events \in {EventList(l) : l \in EventLists}
    /\ device = Devices[1]
    /\ InitCoordinator

\* The record of the last operation is dropped; the program state stays.
Forget ==
    /\ last.op # "idle"
    /\ last' = Idle
    /\ UNCHANGED <<cvars, evars, rvars>>

\* time passes
Tick ==
    /\ last.op = "idle"
    /\ now < MaxTime
    /\ now' = now + 1
    /\ UNCHANGED <<cvars, rvars, listeners, timestamps, doorStatus, doorStamp, last>>

\* The host's sensor for an event name registers its callback; a sensor set
\* up again for the same name registers a new callback (L1, then L2).
add_dahua_event_listener ==
    /\ last.op = "idle"
    /\ ~events.isNone
    /\ \E event_name \in events.names, listener \in ListenerIds :
        /\ listener = NextListener(Get(listeners, get_event_key(event_name), None))
        /\ listeners' = register(listeners, event_name, listener)
        /\ last' = [op |-> "add_dahua_event_listener", event_name |-> event_name,
                    listener |-> listener, before |-> listeners]
        /\ UNCHANGED <<cvars, rvars, timestamps, now, doorStatus, doorStamp>>

\* on_receive is called with the chunk
on_receive_chunk(chunk) ==
    \E steps \in {on_receive_loop(chunk, 1, timestamps, <<>>)} :
        /\ timestamps' = FinalTs(steps, timestamps)
        /\ last' = Outcome("on_receive", chunk, steps)
        /\ UNCHANGED <<cvars, rvars, listeners, now, doorStatus, doorStamp>>

on_receive ==
    /\ last.op = "idle"
    /\ \E chunk \in Chunks : on_receive_chunk(chunk)

\* on_receive_vto_event is called with the payload
on_receive_vto_payload(event) ==
    \E st \in {on_receive_vto_step(event, timestamps)} :
        /\ timestamps' = st.tsAfter
        /\ last' = Outcome("on_receive_vto_event", event, <<st>>)
        /\ doorStatus' = IF IsDoorPulse(st) THEN Progress(doorStatus, DoorOpen(st))
                         ELSE IF IsDoorOther(st) THEN 0 ELSE doorStatus
        /\ doorStamp' = IF IsDoorPulse(st)
                        THEN Progress(doorStamp,
                                      get_event_timestamp_in(st.tsAfter, "DoorStatus") # 0)
                        ELSE IF IsDoorOther(st) THEN 0 ELSE doorStamp
        /\ UNCHANGED <<cvars, rvars, listeners, now>>

on_receive_vto_event ==
    /\ last.op = "idle"
    /\ \E event \in VtoEvents : on_receive_vto_payload(event)

NextEvents ==
    \/ Forget
    \/ Tick
    \/ add_dahua_event_listener
    \/ on_receive
    \/ on_receive_vto_event

SpecEvents == InitEvents /\ [][NextEvents]_vars

(***************************************************************************)
(* Actions of the refresh cycle                                            *)
(***************************************************************************)
\* One refresh cycle as the host runs it: _async_update_data, then the host
\* keeps the returned data on success and keeps its old data on UpdateFailed.
\* slip: the data of a run that failed is handed to the host
held_data_partial(old, r) == SomeData(r.data)

\* return data hands the host the new snapshot; raise UpdateFailed leaves
\* the host with the snapshot it held
held_data(old, r) == IF r.failed THEN old ELSE SomeData(r.data)

Cycle(first) ==
    \E r \in async_update_data(Fields) :
    /\ cycles < MaxCycles
    /\ cycles' = cycles + 1
    /\ initialized' = r.initialized
    /\ model' = r.model
    /\ machine_name' = r.machine_name
    /\ serial_number' = r.serial_number
    /\ channel_number' = r.channel_number
    /\ supports_coaxial_control' = r.supports_coaxial_control
    /\ supports_disarming_linkage' = r.supports_disarming_linkage
    /\ supports_profile_mode' = r.supports_profile_mode
    /\ profile_mode' = r.profile_mode
    /\ event_thread' = r.event_thread
    /\ vto_thread' = r.vto_thread
    /\ event_running' = r.event_running
    /\ vto_running' = r.vto_running
    /\ data' = held_data(data, r)
    /\ last_update_success' = ~r.failed
    /\ last' = [op |-> "_async_update_data", first |-> first, before |-> Fields,
                dataBefore |-> data, calls |-> r.calls, failed |-> r.failed,
                returned |-> r.data]

\* slip: the coordinator is registered whether or not its first refresh failed
async_setup_entry_registered ==
    /\ last.op = "idle"
    /\ setup = "first_refresh"
    /\ Cycle(TRUE)
    /\ setup' = "ready"
    /\ UNCHANGED <<cvars, evars, stopped, pending>>

\* async_setup_entry: the first refresh; a failure aborts the setup
async_setup_entry ==
    /\ last.op = "idle"
    /\ setup = "first_refresh"
    /\ Cycle(TRUE)
    /\ setup' = IF last_update_success' THEN "ready" ELSE "not_ready"
    /\ UNCHANGED <<cvars, evars, stopped, pending>>

\* a scheduled refresh of a coordinator that was set up
scheduled_refresh ==
    /\ last.op = "idle"
    /\ setup = "ready"
    /\ Cycle(FALSE)
    /\ UNCHANGED <<cvars, evars, setup, stopped, pending>>

\* the two readers of the coordinator
Readers == [event |-> event_running, vto |-> vto_running]

\* slip: only the standard reader is stopped
stop_threads_event_only(r) == [r EXCEPT !.event = reader_stop(@)]

\* the body of async_stop: both readers are stopped
stop_threads(r) == [event |-> reader_stop(r.event), vto |-> reader_stop(r.vto)]

\* async_unload_entry, up to the unload of the platforms
unload_threads(r) == [event |-> reader_stop(r.event), vto |-> reader_stop(r.vto)]

RefreshFields ==
    <<machine_name, setup, initialized, model, serial_number, channel_number,
      supports_coaxial_control, supports_disarming_linkage, supports_profile_mode,
      profile_mode, data, last_update_success, event_thread, vto_thread, cycles>>

\* async_stop, the handler of the stop of the host, registered once the
\* first refresh has succeeded
async_stop ==
    /\ last.op = "idle"
    /\ setup = "ready"
    /\ stopped = "no"
    /\ event_running' = stop_threads(Readers).event
    /\ vto_running' = stop_threads(Readers).vto
    /\ stopped' = "async_stop"
    /\ UNCHANGED <<cvars, evars, RefreshFields, pending, last>>

\* async_unload_entry, of an entry that was set up
async_unload_entry ==
    /\ last.op = "idle"
    /\ setup = "ready"
    /\ stopped = "no"
    /\ event_running' = unload_threads(Readers).event
    /\ vto_running' = unload_threads(Readers).vto
    /\ stopped' = "async_unload_entry"
    /\ UNCHANGED <<cvars, evars, RefreshFields, pending, last>>

\* the setups of the refresh path: <<device, channel, event list>>
Setups ==
    {<<Devices[i], 0, EventList({"VideoMotion"})>> : i \in 1..Len(Devices)}
    \cup {<<Devices[1], 1, EventList({"VideoMotion"})>>,
          <<Devices[2], 1, NoEventList>>,
          <<Devices[3], 0, NoEventList>>,
          <<Devices[4], 0, NoEventList>>}

InitRefresh ==
    /\ \E su \in Setups : device = su[1] /\ channel = su[2] /\ events = su[3]
    /\ InitCoordinator

NextRefresh ==
    \/ Forget
    \/ async_setup_entry
    \/ scheduled_refresh
    \/ async_stop
    \/ async_unload_entry

SpecRefresh == InitRefresh /\ [][NextRefresh]_vars

(***************************************************************************)
(* The refresh cycle with the event path running beside it                 *)
(***************************************************************************)
\* The locals of the run in flight: where it is suspended, its data, the
\* calls it has issued and whether an exception reached the outer handler.
InFlight(at, r) == [at |-> at, data |-> r.data, calls |-> r.calls, failed |-> r.failed]

\* the run in flight resumes: the coordinator's fields as they are now, with
\* the locals the run kept
Resumed(p) == [Fields EXCEPT !.data = p.data, !.calls = p.calls, !.failed = p.failed]

\* the assignments to self.* a stage of _async_update_data has made
Assigned(r) ==
    /\ initialized' = r.initialized
    /\ model' = r.model
    /\ machine_name' = r.machine_name
    /\ serial_number' = r.serial_number
    /\ channel_number' = r.channel_number
    /\ supports_coaxial_control' = r.supports_coaxial_control
    /\ supports_disarming_linkage' = r.supports_disarming_linkage
    /\ supports_profile_mode' = r.supports_profile_mode
    /\ profile_mode' = r.profile_mode
    /\ event_thread' = r.event_thread
    /\ vto_thread' = r.vto_thread
    /\ event_running' = r.event_running
    /\ vto_running' = r.vto_running

\* slip: a cycle that starts empties the event timestamp table
begin_refresh_resetting ==
    /\ last.op = "idle"
    /\ pending = {}
    /\ setup \in {"first_refresh", "ready"}
    /\ cycles < MaxCycles
    /\ \E r \in discovery_stage(Fields) :
        /\ Assigned(r)
        /\ pending' = {InFlight("profile_mode", r)}
    /\ timestamps' = EmptyDict
    /\ UNCHANGED <<cvars, listeners, now, doorStatus, doorStamp, setup, data,
                   last_update_success, cycles, stopped, last>>

\* a cycle starts (the first refresh of the setup, or a scheduled one) and
\* runs up to the fetch of the profile mode
begin_refresh ==
    /\ last.op = "idle"
    /\ pending = {}
    /\ setup \in {"first_refresh", "ready"}
    /\ cycles < MaxCycles
    /\ \E r \in discovery_stage(Fields) :
        /\ Assigned(r)
        /\ pending' = {InFlight("profile_mode", r)}
    /\ UNCHANGED <<cvars, evars, setup, data, last_update_success, cycles, stopped, last>>

\* the cycle in flight fetches the profile mode
resume_refresh ==
    /\ last.op = "idle"
    /\ \E p \in pending :
        /\ p.at = "profile_mode"
        /\ \E r \in profile_mode_stage(Resumed(p)) :
            /\ Assigned(r)
            /\ pending' = {InFlight("gather", r)}
    /\ UNCHANGED <<cvars, evars, setup, data, last_update_success, cycles, stopped, last>>

\* the cycle in flight fans out, gathers and returns or raises UpdateFailed;
\* the host keeps the data, and a failed first refresh aborts the setup
end_refresh ==
    /\ last.op = "idle"
    /\ \E p \in pending :
        /\ p.at = "gather"
        /\ \E r \in gather_stage(Resumed(p)) :
            /\ Assigned(r)
            /\ data' = held_data(data, r)
            /\ last_update_success' = ~r.failed
            /\ setup' = IF setup = "first_refresh"
                        THEN IF r.failed THEN "not_ready" ELSE "ready"
                        ELSE setup
    /\ pending' = {}
    /\ cycles' = cycles + 1
    /\ UNCHANGED <<cvars, evars, stopped, last>>

\* the readers and the host's sensors act while a cycle is in flight
listener_added_in_flight == pending # {} /\ add_dahua_event_listener

\* chunks of one line
on_receive_in_flight ==
    /\ pending # {}
    /\ last.op = "idle"
    /\ \E line \in StdLines : on_receive_chunk(<<line>>)

\* the payloads of a motion event
on_receive_vto_event_in_flight ==
    /\ pending # {}
    /\ last.op = "idle"
    /\ \E a \in {"Start", "Stop"} :
           on_receive_vto_payload(VtoEvent("VideoMotion", [Action |-> a]))

\* one camera and one doorbell, with the event list of a motion sensor
ConcurrentSetups ==
    {<<Devices[1], 0, EventList({"VideoMotion"})>>,
     <<Devices[4], 0, EventList({"VideoMotion"})>>}

InitConcurrent ==
    /\ \E su \in ConcurrentSetups : device = su[1] /\ channel = su[2] /\ events = su[3]
    /\ InitCoordinator

NextConcurrent ==
    \/ Forget
    \/ begin_refresh
    \/ resume_refresh
    \/ end_refresh
    \/ listener_added_in_flight
    \/ on_receive_in_flight
    \/ on_receive_vto_event_in_flight

SpecConcurrent == InitConcurrent /\ [][NextConcurrent]_vars

(***************************************************************************)
(* Properties of the event path                                            *)
(***************************************************************************)
\* the steps of the last handler call
StdSteps == IF last.op = "on_receive" THEN last.steps ELSE <<>>

VtoSteps == IF last.op = "on_receive_vto_event" THEN last.steps ELSE <<>>

HandlerSteps == StdSteps \o VtoSteps

\* the action of the event of a step: the field is "action" on the standard
\* stream and "Action" on the doorbell stream
ActionOf(st) ==
    IF last.op = "on_receive" THEN Get(st.event, "action", "") ELSE Get(st.event, "Action", "")

Accepted(st) == st.kind = "accepted"

RegisteredFor(ename) == Get(listeners, <<ename, channel>>, None)

StampOf(ts, ename) == Get(ts, <<ename, channel>>, 0)

\* every event published by the last call is one accepted step, in order
PublishedOnce ==
    /\ \A i \in 1..Len(HandlerSteps) :
           HandlerSteps[i].published = (IF Accepted(HandlerSteps[i]) THEN 1 ELSE 0)
    /\ last.op \in {"on_receive", "on_receive_vto_event"} =>
           Len(last.bus) = Cardinality({i \in 1..Len(last.steps) : Accepted(last.steps[i])})

\* C1 as stated: every accepted Start event of the standard stream is
\* published once and stamps the table entry of its code with the current
\* nonzero epoch, whether or not a listener is registered.
C1_Original ==
    /\ PublishedOnce
    /\ \A i \in 1..Len(StdSteps) :
           LET st == StdSteps[i] IN
           Accepted(st) /\ ActionOf(st) = "Start" =>
               /\ now > 0
               /\ StampOf(st.tsAfter, st.event["Code"]) = now

\* C1 as amended: every accepted Start event of the standard stream is
\* published once; the table entry of its effective code becomes the current
\* nonzero epoch when a listener is registered for that key, and with no
\* listener registered the table is left as it was.
C1_StartStampsOnlyWithListener ==
    /\ PublishedOnce
    /\ \A i \in 1..Len(StdSteps) :
           LET st == StdSteps[i] IN
           Accepted(st) /\ ActionOf(st) = "Start" =>
               IF st.name # None /\ RegisteredFor(st.name) # None
               THEN now > 0 /\ StampOf(st.tsAfter, st.name) = now
               ELSE st.tsAfter = st.tsBefore

\* an accepted Start event was published while no listener was registered
\* for it, and the table stayed as it was
C1_Witness ==
    \E i \in 1..Len(StdSteps) :
        LET st == StdSteps[i] IN
        /\ Accepted(st) /\ ActionOf(st) = "Start"
        /\ st.name # None /\ RegisteredFor(st.name) = None
        /\ st.published = 1 /\ Len(last.bus) >= 1
        /\ st.tsAfter = st.tsBefore

StatedIndex(event) ==
    LET text == Get(event, "index", "0") IN
    CASE text = "0" -> 0
      [] text = "1" -> 1
      [] OTHER -> 0

\* C3: an event of the standard stream is discarded exactly when its index
\* (0 when absent or not a number) differs from the configured channel; a
\* discarded event is not published, calls no listener and leaves the table
\* as it was.
C3_MismatchDiscarded ==
    /\ PublishedOnce
    /\ \A i \in 1..Len(StdSteps) :
           LET st == StdSteps[i] IN
           st.kind \in {"discarded", "accepted"} =>
               /\ (st.kind = "discarded") = (StatedIndex(st.event) # channel)
               /\ st.kind = "discarded" =>
                      /\ st.published = 0
                      /\ st.invoked = <<>>
                      /\ st.tsAfter = st.tsBefore

\* on channel 1 a Start event without an index was discarded although a
\* listener is registered for its code
C3_Witness ==
    /\ channel = 1
    /\ \E i \in 1..Len(StdSteps) :
           LET st == StdSteps[i] IN
           /\ st.kind = "discarded"
           /\ "index" \notin DOMAIN st.event
           /\ RegisteredFor(st.event["Code"]) # None
           /\ last.bus = <<>>

\* C4: with a listener registered for DoorStatus, a Pulse whose Status is
\* "Open" stamps the key with the current nonzero epoch and a Pulse with any
\* other Status stamps it 0; over the pulses Open, Closed, Open the stamp
\* reads nonzero, 0, nonzero.
C4_DoorStatusPulse ==
    /\ \A i \in 1..Len(VtoSteps) :
           LET st == VtoSteps[i] IN
           (/\ Accepted(st) /\ st.name = "DoorStatus"
            /\ RegisteredFor("DoorStatus") # None
            /\ ActionOf(st) = "Pulse") =>
               /\ now > 0
               /\ StampOf(st.tsAfter, "DoorStatus") =
                      (IF Get(Get(st.event, "Data", PyDict(EmptyDict)).d, "Status", "") = "Open"
                       THEN now ELSE 0)
               /\ Len(st.invoked) = 1
    /\ doorStatus = 3 => doorStamp = 3

\* the pulses Open, Closed, Open were handled and the stamps read nonzero,
\* 0, nonzero
C4_Witness == doorStatus = 3 /\ doorStamp = 3

\* C5 as stated: the effective code is SmartMotionHuman exactly when the raw
\* code is CrossLineDetection or CrossRegionDetection, the object type is
\* "human" in any case, and a listener is registered for SmartMotionHuman
\* on the channel; otherwise it is the raw code.
C5_Original ==
    \A i \in 1..Len(HandlerSteps) :
        LET st == HandlerSteps[i] IN
        Accepted(st) /\ st.name # None =>
            LET raw == Get(st.event, "Code", "")
                payload == Get(st.event, "data", Get(st.event, "Data", PyDict(EmptyDict)))
                type == Get(Get(payload.d, "Object", EmptyDict), "ObjectType", <<>>)
            IN st.name =
                   (IF /\ raw \in {"CrossLineDetection", "CrossRegionDetection"}
                       /\ type \in {sHuman, sHUMAN, human}
                       /\ RegisteredFor("SmartMotionHuman") # None
                    THEN "SmartMotionHuman" ELSE raw)

\* C6: the registry holds one callback per key, the one registered last:
\* a registration leaves the new callback under its key and every other key
\* as it was, and a handler calls, for a key, only the callback registered
\* for it now, at most once per event.
C6_LastRegistrationWins ==
    /\ last.op = "add_dahua_event_listener" =>
           /\ RegisteredFor(last.event_name) = last.listener
           /\ \A k \in (DOMAIN listeners) \cup (DOMAIN last.before) :
                  k # <<last.event_name, channel>> =>
                      Get(listeners, k, None) = Get(last.before, k, None)
    /\ \A i \in 1..Len(HandlerSteps) :
           /\ Len(HandlerSteps[i].invoked) <= 1
           /\ \A j \in 1..Len(HandlerSteps[i].invoked) :
                  HandlerSteps[i].invoked[j].listener =
                      RegisteredFor(HandlerSteps[i].invoked[j].name)

\* an event was handled after a second registration for its key, and the
\* second callback was called
C6_Witness ==
    \E i \in 1..Len(HandlerSteps) :
        /\ Len(HandlerSteps[i].invoked) = 1
        /\ HandlerSteps[i].invoked[1].listener = "L2"
        /\ RegisteredFor(HandlerSteps[i].invoked[1].name) = "L2"

(***************************************************************************)
(* Properties of the refresh cycle                                         *)
(***************************************************************************)
IsCycle == last.op = "_async_update_data"

CycleCalls == IF IsCycle THEN last.calls ELSE <<>>

EndingAt(site) ==
    IF \E i \in 1..Len(CycleCalls) : CycleCalls[i].site = site
    THEN CycleCalls[CHOOSE i \in 1..Len(CycleCalls) : CycleCalls[i].site = site].ending
    ELSE "not called"

ProbeSites == {"snapshot", "coaxial_probe", "disarming_probe", "profile_probe"}

\* C7 as stated: a discovery in which the only calls that fail are optional
\* probes, each with a response or transport error, does not fail the cycle:
\* the snapshot is returned with model and serial number, and the capability
\* of each failed probe is recorded as unsupported.
C7_Original ==
    (/\ IsCycle /\ ~last.before.initialized
     /\ model # NoneText
     /\ \E i \in 1..Len(CycleCalls) : CycleCalls[i].ending # "ok"
     /\ \A i \in 1..Len(CycleCalls) :
            CycleCalls[i].ending # "ok" =>
                /\ CycleCalls[i].site \in ProbeSites
                /\ CycleCalls[i].ending \in {"response", "transport"}) =>
        /\ ~last.failed
        /\ last_update_success
        /\ {"model", "serialNumber"} \subseteq DOMAIN last.returned
        /\ EndingAt("coaxial_probe") \in {"response", "transport"} => ~supports_coaxial_control
        /\ EndingAt("disarming_probe") \in {"response", "transport"} =>
               ~supports_disarming_linkage
        /\ EndingAt("profile_probe") \in {"response", "transport"} => ~supports_profile_mode

\* a doorbell model as C8 words it: uppercased, it starts with VTO, DHI or AD
StatedDoorbell(m) ==
    \E p \in {tVTOPrefix, tDHIPrefix, tADPrefix} :
        /\ Len(m) >= Len(p)
        /\ \A i \in 1..Len(p) : UpperChar(m[i]) = p[i]

\* C8 as stated: never both readers; once discovered, the doorbell reader
\* runs exactly for a doorbell model and the standard reader exactly for any
\* other model.
C8_Original ==
    /\ ~(event_thread > 0 /\ vto_thread > 0)
    /\ initialized =>
           /\ (vto_thread > 0) = StatedDoorbell(model)
           /\ (event_thread > 0) = ~StatedDoorbell(model)

\* C8 as amended: never both readers; the doorbell reader is started exactly
\* for a doorbell model, and the standard reader exactly for any other model
\* when an event list is configured; with no event list no reader is started
\* for such a model.
C8_OneReaderByModel ==
    /\ ~(event_thread > 0 /\ vto_thread > 0)
    /\ vto_thread > 0 => StatedDoorbell(model)
    /\ event_thread > 0 => ~StatedDoorbell(model) /\ ~events.isNone
    /\ initialized =>
           /\ (vto_thread > 0) = StatedDoorbell(model)
           /\ (event_thread > 0) = (~StatedDoorbell(model) /\ ~events.isNone)

\* discovery started only the doorbell reader for a model spelled in lower
\* case
C8_Witness ==
    /\ initialized
    /\ model = tVtoLower
    /\ vto_thread = 1 /\ event_thread = 0

\* C9 as stated: the keys of the snapshot never shrink from one successful
\* cycle to the next, so the discovery keys stay in every later snapshot.
C9_Original ==
    (IsCycle /\ ~last.failed /\ last.dataBefore.present) =>
        /\ data.present
        /\ DOMAIN last.dataBefore.d \subseteq DOMAIN data.d

\* the coordinator's own fields
OwnFields(f) ==
    <<f.initialized, f.model, f.machine_name, f.serial_number, f.channel_number,
      f.supports_coaxial_control, f.supports_disarming_linkage, f.supports_profile_mode,
      f.profile_mode>>

\* C10 as stated: a cycle that fails leaves the coordinator's fields and the
\* snapshot held by the host exactly as they were before it began.
C10_Original ==
    (IsCycle /\ last.failed) =>
        /\ data = last.dataBefore
        /\ OwnFields(Fields) = OwnFields(last.before)

\* C10 as amended: a cycle that fails is reported as update-failed and the
\* snapshot held by the host is exactly as it was before the cycle began;
\* the coordinator's own fields are not rolled back, a snapshot probe that
\* succeeded before the failure leaves the channel number it set; a
\* scheduled cycle that fails leaves the coordinator set up, so that the
\* next scheduled cycle retries.
C10_FailureKeepsSnapshot ==
    (IsCycle /\ last.failed) =>
        /\ ~last_update_success
        /\ data = last.dataBefore
        /\ EndingAt("snapshot") = "ok" => channel_number = channel
        /\ ~last.first => setup = "ready"

\* a scheduled cycle failed after it had changed the profile mode: the host
\* holds the snapshot of the cycle before
C10_Witness ==
    /\ IsCycle /\ last.failed /\ ~last.first
    /\ ~last_update_success
    /\ data.present /\ data = last.dataBefore
    /\ profile_mode # last.before.profile_mode

\* C11: once the coordinator was stopped, by async_stop or by the unload of
\* its entry, neither reader runs, whatever refresh cycles precede or follow
\* the stop.
C11_StoppedReaders ==
    stopped # "no" => ~event_running /\ ~vto_running

\* the doorbell reader was started, the coordinator was stopped, and a
\* refresh cycle ran after the stop
C11_Witness ==
    /\ stopped = "async_stop"
    /\ IsCycle
    /\ vto_thread > 0
    /\ ~vto_running /\ ~event_running

\* the steps of the last handler call that handled an event
EventSteps ==
    {i \in 1..Len(HandlerSteps) : HandlerSteps[i].kind \in {"accepted", "discarded"}}

StampActions == {"Start", "Stop", "Pulse"}

\* every entry of the table is 0 or an epoch that is not in the future
TableWellFormed ==
    \A k \in DOMAIN timestamps :
        timestamps[k] = 0 \/ (0 < timestamps[k] /\ timestamps[k] <= now)

\* a step that is no event, or an event with another action, keeps the table
OtherActionsKeep ==
    \A i \in 1..Len(HandlerSteps) :
        (i \notin EventSteps \/ ActionOf(HandlerSteps[i]) \notin StampActions) =>
            HandlerSteps[i].tsAfter = HandlerSteps[i].tsBefore

\* the last operation handled an event with action Start, Stop or Pulse
\* that wrote the table
StampingStep ==
    \E i \in EventSteps :
        /\ ActionOf(HandlerSteps[i]) \in StampActions
        /\ HandlerSteps[i].tsAfter # HandlerSteps[i].tsBefore

\* C12: every entry of the timestamp table is always 0 or an epoch not
\* greater than the current time; the table changes only in an operation
\* that handles an event whose action is Start, Stop or Pulse, and an event
\* with any other action leaves it as it was.
C12_TableInvariant ==
    /\ []TableWellFormed
    /\ []OtherActionsKeep
    /\ [][timestamps' # timestamps => StampingStep']_vars

\* a doorbell event without an action was handled for a key that has a
\* listener and holds an epoch of an earlier time; the table is as it was
C12_Witness ==
    \E i \in 1..Len(VtoSteps) :
        LET st == VtoSteps[i] IN
        /\ ActionOf(st) \notin StampActions
        /\ st.name # None /\ RegisteredFor(st.name) # None
        /\ 0 < StampOf(timestamps, st.name) /\ StampOf(timestamps, st.name) < now
        /\ st.tsAfter = st.tsBefore

\* the Index of a payload of the doorbell stream, 0 when it has none
VtoIndex(event) == Get(event, "Index", 0)

\* the events of the standard stream that are published are those whose
\* index is the channel
StdPublishedIffMatch ==
    \A i \in 1..Len(StdSteps) :
        LET st == StdSteps[i] IN
        st.kind \in {"discarded", "accepted"} =>
            (st.published = 1) = (StatedIndex(st.event) = channel)

\* C13 as stated: on the doorbell stream too, an event whose Index is not
\* the channel is not published, calls no listener and leaves the table as
\* it was; only accepted events are published.
C13_Original ==
    /\ PublishedOnce
    /\ StdPublishedIffMatch
    /\ \A i \in 1..Len(VtoSteps) :
           LET st == VtoSteps[i] IN
           VtoIndex(st.event) # channel =>
               /\ st.published = 0
               /\ st.invoked = <<>>
               /\ st.tsAfter = st.tsBefore

\* C13 as amended: the index is matched on the standard stream only, where
\* exactly the events whose index is the channel are published; on the
\* doorbell stream every event is published once and dispatched whatever
\* its Index: with a listener registered for its key, a Start stamps the key
\* and calls the listener also when the Index is not the channel.
C13_IndexMatchedOnStandardStreamOnly ==
    /\ PublishedOnce
    /\ StdPublishedIffMatch
    /\ \A i \in 1..Len(VtoSteps) :
           LET st == VtoSteps[i] IN
           /\ st.kind = "accepted" /\ st.published = 1
           /\ last.bus = <<st.event>>
           /\ (/\ st.name # None /\ RegisteredFor(st.name) # None
               /\ ActionOf(st) = "Start") =>
                  /\ StampOf(st.tsAfter, st.name) = now
                  /\ Len(st.invoked) = 1

\* a Start of the doorbell stream with Index 5 was published, stamped its
\* key and called the listener on a channel that is not 5
C13_Witness ==
    \E i \in 1..Len(VtoSteps) :
        LET st == VtoSteps[i] IN
        /\ VtoIndex(st.event) = 5 /\ channel # 5
        /\ ActionOf(st) = "Start"
        /\ st.published = 1 /\ last.bus = <<st.event>>
        /\ Len(st.invoked) = 1
        /\ StampOf(st.tsAfter, st.name) = now

\* the calls of the discovery sequence
DiscoverySites ==
    {"snapshot", "system_info", "machine_name", "software_version", "device_type",
     "coaxial_probe", "disarming_probe", "profile_probe"}

DiscoveryCalls == {i \in 1..Len(CycleCalls) : CycleCalls[i].site \in DiscoverySites}

\* C14: discovery is executed in the first cycle of a coordinator and in no
\* later cycle, whether the cycles succeed or fail: a later cycle issues no
\* call of the discovery sequence and starts no reader, and no reader is
\* ever started twice.
C14_DiscoveryOnce ==
    /\ event_thread <= 1 /\ vto_thread <= 1
    /\ IsCycle =>
           IF last.first
           THEN /\ cycles = 1
                /\ ~last.before.initialized
                /\ DiscoveryCalls # {}
                /\ CycleCalls[1].site = "snapshot"
           ELSE /\ cycles > 1
                /\ last.before.initialized /\ initialized
                /\ DiscoveryCalls = {}
                /\ event_thread = last.before.event_thread
                /\ vto_thread = last.before.vto_thread

\* a scheduled cycle ran and failed, and issued queries but none of the
\* discovery sequence
C14_Witness ==
    /\ IsCycle /\ ~last.first /\ last.failed
    /\ cycles = 2
    /\ Len(CycleCalls) > 0 /\ DiscoveryCalls = {}
    /\ initialized

\* the place of the call at a site among the calls of the last cycle, 0
\* when the site was not called
PlaceOf(site) ==
    IF \E i \in 1..Len(CycleCalls) : CycleCalls[i].site = site
    THEN CHOOSE i \in 1..Len(CycleCalls) : CycleCalls[i].site = site
    ELSE 0

\* the mode field of the answer of the video-input-mode fetch of the last
\* cycle, "0" when the field is missing or empty
FetchedMode ==
    LET got == Get(last.returned, "table.VideoInMode[0].Config[0]", "0") IN
    IF got = "" THEN "0" ELSE got

\* the profile mode as the last cycle resolved it
ResolvedMode ==
    IF EndingAt("video_in_mode") = "ok" THEN FetchedMode ELSE last.before.profile_mode

\* C15: in every cycle the profile-mode fetch, when made, ends before the
\* lighting query is issued, and the lighting query is issued for the
\* configured channel and the profile mode resolved in that cycle: the
\* fetched value after a fetch that succeeded, the value of before the cycle
\* after a fetch that failed.
C15_LightingAfterProfileMode ==
    (IsCycle /\ PlaceOf("lighting") > 0) =>
        /\ PlaceOf("video_in_mode") < PlaceOf("lighting")
        /\ CycleCalls[PlaceOf("lighting")].call =
               <<"async_get_config_lighting", channel, ResolvedMode>>

\* the fetch failed in a cycle that began with profile mode "1", and the
\* lighting query was then issued for mode "1" on channel 1
C15_Witness ==
    /\ IsCycle
    /\ channel = 1
    /\ last.before.profile_mode = "1"
    /\ EndingAt("video_in_mode") \in {"response", "transport", "other"}
    /\ PlaceOf("lighting") > PlaceOf("video_in_mode")
    /\ CycleCalls[PlaceOf("lighting")].call = <<"async_get_config_lighting", 1, "1">>

\* the nested numeric State of the event of a step, 0 when it has none
StateOf(st) ==
    LET payload == IF last.op = "on_receive"
                   THEN Get(st.event, "data", PyDict(EmptyDict))
                   ELSE Get(st.event, "Data", PyDict(EmptyDict))
    IN IF payload.t = "dict" THEN Get(payload.d, "State", 0) ELSE 0

\* a Pulse of a code other than DoorStatus, accepted, with a listener
\* registered for its key
OtherPulse(st) ==
    /\ Accepted(st) /\ ActionOf(st) = "Pulse"
    /\ st.name # None /\ st.name # "DoorStatus"
    /\ RegisteredFor(st.name) # None

PulseStamped(st) ==
    LET v == IF StateOf(st) = 1 THEN now ELSE 0 IN
    /\ StampOf(st.tsAfter, st.name) = v
    /\ st.invoked = <<[listener |-> RegisteredFor(st.name), name |-> st.name, seen |-> v]>>

\* C16 as stated: on both streams such a Pulse stamps the key with the
\* current epoch when State is 1 and with 0 otherwise, and the listener is
\* called.
C16_Original ==
    \A i \in 1..Len(HandlerSteps) :
        OtherPulse(HandlerSteps[i]) => PulseStamped(HandlerSteps[i])

\* C16 as amended: on the doorbell stream such a Pulse stamps the key with
\* the current epoch when State is 1 and with 0 otherwise, and the listener
\* is called; on the standard stream a Pulse is published, writes no stamp
\* and calls no listener.
C16_PulseOnDoorbellStreamOnly ==
    /\ \A i \in 1..Len(VtoSteps) :
           OtherPulse(VtoSteps[i]) => now > 0 /\ PulseStamped(VtoSteps[i])
    /\ \A i \in 1..Len(StdSteps) :
           LET st == StdSteps[i] IN
           Accepted(st) /\ ActionOf(st) = "Pulse" =>
               /\ st.published = 1
               /\ st.invoked = <<>>
               /\ st.tsAfter = st.tsBefore

\* a Pulse with State 1 on the doorbell stream activated a key that was
\* inactive, and the listener read the new stamp
C16_Witness ==
    \E i \in 1..Len(VtoSteps) :
        LET st == VtoSteps[i] IN
        /\ OtherPulse(st) /\ StateOf(st) = 1
        /\ StampOf(st.tsBefore, st.name) = 0
        /\ StampOf(st.tsAfter, st.name) = now
        /\ Len(st.invoked) = 1 /\ st.invoked[1].seen = now

\* the last cycle determined the model
ModelDetermined == IsCycle /\ last.first /\ "model" \in DOMAIN last.returned

\* the last cycle came to the determination of the model
GatherDone ==
    /\ IsCycle /\ last.first
    /\ \A site \in {"system_info", "machine_name", "software_version"} :
           EndingAt(site) = "ok"

\* C17 as stated: the model is the deviceType field when the device reports
\* one, else the updateSerial field when it reports one, else the answer of
\* the device-type query, which is issued only when both fields are absent.
C17_Original ==
    /\ ModelDetermined =>
           model = (IF device.deviceType # NoneText THEN device.deviceType
                    ELSE IF device.updateSerial # NoneText THEN device.updateSerial
                    ELSE device.type)
    /\ GatherDone =>
           (PlaceOf("device_type") > 0) =
               (device.deviceType = NoneText /\ device.updateSerial = NoneText)

\* C17 as amended: the model is the deviceType field when the device
\* reports one other than "IP Camera"; when deviceType is absent or is
\* "IP Camera" it is the updateSerial field when the device reports one, and
\* else the type of the answer of the device-type query, which is issued
\* only in that last case; the model is also stored in the snapshot.
C17_ModelPriority ==
    LET generic == device.deviceType \in {NoneText, tIPCamera} IN
    /\ ModelDetermined =>
           /\ model = (IF ~generic THEN device.deviceType
                       ELSE IF device.updateSerial # NoneText THEN device.updateSerial
                       ELSE device.type)
           /\ last.returned["model"] = model
    /\ GatherDone =>
           (PlaceOf("device_type") > 0) = (generic /\ device.updateSerial = NoneText)

\* a device that reports the deviceType "IP Camera" and an updateSerial got
\* the updateSerial as its model, without the device-type query
C17_Witness ==
    /\ ModelDetermined
    /\ device.deviceType = tIPCamera
    /\ device.updateSerial = tCamera
    /\ model = tCamera
    /\ PlaceOf("device_type") = 0

\* the model contains -AS-PV
StatedSecurityLight(m) ==
    \E i \in 1..Len(m) : i + 5 <= Len(m) /\ SubSeq(m, i, i + 5) = <<"-", "A", "S", "-", "P", "V">>

\* the answer the device gives at a site of the fan-out
StatedAnswer(site) ==
    CASE site = "lighting" -> lighting_answer(channel, profile_mode)
      [] site = "motion_detection" -> motion_detection_answer
      [] site = "disarming_linkage" -> disarming_linkage_answer
      [] site = "coaxial" -> coaxial_answer
      [] site = "lighting_v2" -> lighting_v2_answer

FourSites == {"lighting", "motion_detection", "disarming_linkage", "coaxial"}

ErrorEndings == {"response", "transport", "other"}

\* C18: a cycle that comes to the fan-out issues the lighting and the
\* motion-detection query, the disarming-linkage query exactly when
\* disarming linkage is supported and the coaxial query exactly when coaxial
\* control is supported; lighting-v2 is then fetched exactly when the model
\* contains -AS-PV; a failure of any of these fails the cycle, and of a cycle
\* that succeeds the snapshot holds the answers that are not null and none
\* of a null answer.
C18_FanOut ==
    (IsCycle /\ PlaceOf("lighting") > 0) =>
        LET fanFailed == \E site \in FourSites : EndingAt(site) \in ErrorEndings IN
        /\ PlaceOf("motion_detection") > 0
        /\ (PlaceOf("disarming_linkage") > 0) = supports_disarming_linkage
        /\ (PlaceOf("coaxial") > 0) = supports_coaxial_control
        /\ (PlaceOf("lighting_v2") > 0) = (~fanFailed /\ StatedSecurityLight(model))
        /\ (fanFailed \/ EndingAt("lighting_v2") \in ErrorEndings) => last.failed
        /\ ~last.failed =>
               \A site \in FourSites \cup {"lighting_v2"} :
                   \A k \in DOMAIN StatedAnswer(site) :
                       IF EndingAt(site) = "ok"
                       THEN k \in DOMAIN data.d /\ data.d[k] = StatedAnswer(site)[k]
                       ELSE k \notin DOMAIN data.d

\* a cycle of a device with -AS-PV in its model that supports disarming
\* linkage and no coaxial control succeeded: three queries were fanned out
\* and lighting-v2 was merged
C18_Witness ==
    /\ IsCycle /\ ~last.failed
    /\ supports_disarming_linkage /\ ~supports_coaxial_control
    /\ PlaceOf("disarming_linkage") > PlaceOf("motion_detection")
    /\ PlaceOf("coaxial") = 0
    /\ PlaceOf("lighting_v2") > 0
    /\ "table.Lighting_V2" \in DOMAIN data.d

\* no call of the last cycle other than the video-input-mode fetch failed
OnlyFetchFailed ==
    \A i \in 1..Len(CycleCalls) :
        CycleCalls[i].ending \in ErrorEndings => CycleCalls[i].site = "video_in_mode"

\* C19: a cycle past discovery fetches the video-input mode exactly when
\* profile mode is supported and the model is no doorbell; a fetch that
\* fails, with whatever exception, leaves the profile mode of before the
\* cycle and the cycle goes on to the fan-out and, nothing else failing,
\* succeeds; a fetch that succeeds makes the profile mode the mode field of
\* the answer, "0" when the field is missing or empty.
C19_ProfileModeFetch ==
    (IsCycle /\ initialized) =>
        /\ (PlaceOf("video_in_mode") > 0) =
               (supports_profile_mode /\ ~StatedDoorbell(model))
        /\ EndingAt("video_in_mode") \in ErrorEndings =>
               /\ profile_mode = last.before.profile_mode
               /\ PlaceOf("lighting") > PlaceOf("video_in_mode")
               /\ OnlyFetchFailed => ~last.failed /\ last_update_success
        /\ EndingAt("video_in_mode") = "ok" => profile_mode = FetchedMode
        /\ EndingAt("video_in_mode") = "not called" =>
               profile_mode = last.before.profile_mode

\* the fetch ended with an exception that is no client error in a cycle
\* that began with profile mode "1": the cycle succeeded and the mode is
\* still "1"
C19_Witness ==
    /\ IsCycle /\ ~last.failed
    /\ EndingAt("video_in_mode") = "other"
    /\ last.before.profile_mode = "1"
    /\ profile_mode = "1"

\* the data field of the event of a step was kept as the raw string
RawData(st) ==
    /\ st.kind \in {"accepted", "discarded"}
    /\ "data" \in DOMAIN st.event
    /\ st.event["data"].t = "str"

\* C20 as stated: an accepted event whose data field is no valid JSON keeps
\* the raw string, is published and is dispatched like any other event;
\* every line of a chunk is handled, and every line that is accepted when
\* it arrives alone is published also when a malformed line precedes it in
\* the chunk.
C20_Original ==
    last.op = "on_receive" =>
        /\ Len(last.steps) = Len(last.input)
        /\ Len(last.bus) =
               Cardinality({i \in 1..Len(last.input) :
                                on_receive_line(last.input[i], timestamps).published = 1})
        /\ \A i \in 1..Len(last.steps) :
               LET st == last.steps[i] IN
               (Accepted(st) /\ RawData(st)) =>
                   /\ st.published = 1
                   /\ ~st.raised
                   /\ (RegisteredFor(st.event["Code"]) # None /\ ActionOf(st) = "Start") =>
                          Len(st.invoked) = 1

(***************************************************************************)
(* Properties of the two paths together                                    *)
(***************************************************************************)
\* the device state: snapshot, model, capability flags, profile mode and
\* channel number
DeviceState ==
    <<data, model, supports_coaxial_control, supports_disarming_linkage,
      supports_profile_mode, profile_mode, channel_number>>

\* the step is one of a refresh cycle
RefreshStep == pending' # pending

\* the step is one of the event path: a chunk or a payload is dispatched
DispatchStep ==
    /\ last' # last
    /\ last'.op \in {"on_receive", "on_receive_vto_event"}

\* C21: with events dispatched while a cycle is in flight, no step of a
\* refresh cycle (discovery included) changes the event timestamp table or
\* the listener registry, and no dispatch changes the device state.
C21_DisjointWrites ==
    [][/\ RefreshStep => UNCHANGED <<timestamps, listeners>>
       /\ DispatchStep => UNCHANGED DeviceState]_vars

\* an event was stamped while the first cycle was in flight after discovery
\* had written the model, and a listener is registered
C21_Witness ==
    /\ pending # {}
    /\ cycles = 0
    /\ initialized
    /\ last.op = "on_receive"
    /\ timestamps # EmptyDict
    /\ listeners # EmptyDict

(***************************************************************************)
(* Properties of the readers' lifecycle                                    *)
(***************************************************************************)
\* C22: over the life of a coordinator, whatever cycles it runs and whichever
\* of its queries fail, start() is called at most once on each reader.
C22_StartAtMostOnce ==
    /\ event_thread <= 1
    /\ vto_thread <= 1

\* the first cycle failed after the standard reader was started and before
\* the initialized flag was set
C22_Witness ==
    /\ last.op = "_async_update_data"
    /\ last.failed
    /\ ~initialized
    /\ event_thread = 1
    /\ setup = "not_ready"

\* C23: when the setup was aborted because the first refresh cycle failed,
\* no reader of that coordinator is running: a reader was not started, or it
\* has been stopped.
C23_Original ==
    setup = "not_ready" =>
        /\ ~event_running
        /\ ~vto_running

(***************************************************************************)
(* Properties of the profile mode                                          *)
(***************************************************************************)
\* the device has no profile mode to ask for
WithoutProfileMode == ~supports_profile_mode \/ is_doorbell

\* the last cycle issued the video-in-mode query
VideoInModeAsked ==
    /\ IsCycle
    /\ \E i \in 1..Len(last.calls) : last.calls[i].site = "video_in_mode"

\* C24: in every state, a device without profile-mode support, or a
\* doorbell, has profile mode "0"; no cycle issues the video-in-mode query
\* for such a device; and once discovery has completed the profile-mode
\* support flag keeps its value.
C24_DayModeWithoutSupport ==
    /\ [](WithoutProfileMode => profile_mode = "0")
    /\ [](VideoInModeAsked => ~WithoutProfileMode)
    /\ [][initialized => supports_profile_mode' = supports_profile_mode]_vars

\* a second cycle has run for a discovered device without profile-mode
\* support (a camera whose probe said no, or a doorbell): no video-in-mode
\* query, mode "0"
C24_Witness ==
    /\ IsCycle
    /\ ~last.first
    /\ ~last.failed
    /\ initialized
    /\ WithoutProfileMode
    /\ ~VideoInModeAsked
    /\ profile_mode = "0"

====
